---- MODULE Spec2Model ----
(***************************************************************************)
(* KAS Temp Mail: the client session controller (src/src/App.tsx) and the  *)
(* relay proxy (src/unnamed/part_000, src/unnamed/part_001).               *)
(*                                                                         *)
(* Spec      : the App component as a state machine.  Every async handler  *)
(*             is split at its awaits: one action issues the request, one  *)
(*             action per awaited response runs the continuation up to the *)
(*             next await (or through catch/finally).  A state update and  *)
(*             the render + effects it causes are one step.                *)
(* ProxySpec : proxyRequest of the three proxy modules, one request at a   *)
(*             time (the proxy holds no state between calls).              *)
(***************************************************************************)
EXTENDS Integers, Sequences, FiniteSets, Bags, TLC

\* ------------------------------------------------------------------ bounds
MaxMsg == 2
MaxCalls == 3

\* ------------------------------------------------------------- JS values
Null == [null |-> TRUE]
Undefined == -1
NoError == "null"

MsgIds == 1..MaxMsg

VARIABLES
    phase,              \* "boot" | "mounted" | "unmounted"
    account,            \* useState<Account | null>
    storage,            \* localStorage['kas_temp_mail_account']
    messages,           \* useState<Message[]>
    selectedMessage,    \* useState<MessageDetail | null>
    loading,            \* useState(false)
    fetchingMessages,   \* useState(false)
    error,              \* useState<string | null>
    intervals,          \* the live setInterval timers, each named by the account its closure holds
    inflight,           \* bag of awaited fetches, each with its continuation's closure
    attempts,           \* createAccount calls started so far (names the generated address)
    calls,              \* handler invocations so far (clicks and timer ticks)
    last,               \* the step just taken: [op, arg, token]
    preq,               \* proxy: the request being served, or Null
    pup,                \* proxy: the upstream request that was sent, or Null
    pupres,             \* proxy: what the upstream fetch settled with, or Null
    pres,               \* proxy: the response sent to the caller, or Null
    pstat               \* proxy: [calls, responses, bodyRead] of the request being served

cvars == <<phase, account, storage, messages, selectedMessage, loading,
           fetchingMessages, error, intervals, inflight, attempts, calls, last>>
pvars == <<preq, pup, pupres, pres, pstat>>
vars == <<cvars, pvars>>

\* --------------------------------------------------------------- helpers
Account(n, id) == [id |-> id, address |-> n, token |-> n]

\* JSON.stringify drops properties whose value is undefined
JSONstringifyAccount(a) ==
    [json |-> IF a.id = Undefined
              THEN [address |-> a.address, token |-> a.token]
              ELSE a]

JSONparseAccount(s) == s.json

SavedAccount == Account(0, 0)

Fetch(kind, n, id, token, sel) ==
    [kind |-> kind, n |-> n, id |-> id, token |-> token, sel |-> sel]

\* Response.ok
ResponseOk(status) == status >= 200 /\ status <= 299

\* one more handler invocation, within the bound
Call == calls < MaxCalls /\ calls' = calls + 1

Await(f) == inflight (+) SetToBag({f})
Settle(f) == inflight (-) SetToBag({f})

\* a step of the component: arg is the message id (or, for createAccount, the attempt)
\* it is about, token the bearer token of the request it issued (or of the one it settled)
Step(op, arg, token) == [op |-> op, arg |-> arg, token |-> token]

Ids(list) == {list[i].id : i \in 1..Len(list)}

SeenIn(list, id) == \E i \in 1..Len(list) : list[i].id = id /\ list[i].seen

RECURSIVE ToList(_, _)
ToList(S, seen) ==
    IF S = {} THEN <<>>
    ELSE LET m == CHOOSE x \in S : \A y \in S : x <= y
         IN <<[id |-> m, seen |-> seen[m]]>> \o ToList(S \ {m}, seen)

\* the upstream's seen flag: no request of the client, and no route of the proxy, marks
\* a message as read upstream, so the upstream reports every message unseen
UpstreamSeen == [m \in MsgIds |-> FALSE]

\* the values data['hydra:member'] of a message-list response can take: any part of
\* the mailbox (messages arrive and expire upstream), in the upstream's order
HydraMembers == {ToList(S, UpstreamSeen) : S \in SUBSET MsgIds}

NoSel == -2

\* selectedMessage?.id
SelId == IF selectedMessage = Null THEN NoSel ELSE selectedMessage.id

\* the proxy between two requests
ProxyIdle ==
    /\ preq = Null /\ pup = Null /\ pupres = Null /\ pres = Null
    /\ pstat = [calls |-> 0, responses |-> 0, bodyRead |-> FALSE]

\* ------------------------------------------------- client: initial state
Init ==
    /\ phase = "boot"
    /\ account = Null
    /\ storage \in {Null, JSONstringifyAccount(SavedAccount)}
    /\ messages = <<>>
    /\ selectedMessage = Null
    /\ loading = FALSE
    /\ fetchingMessages = FALSE
    /\ error = NoError
    /\ intervals = {}
    /\ inflight = EmptyBag
    /\ attempts = 0
    /\ calls = 0
    /\ last = Step("init", Undefined, Undefined)
    /\ ProxyIdle

\* ------------------------------------------------------ client: handlers
\* fetchMessages up to its await, with the account its closure holds
fetchMessagesCall(acc) == Fetch("messages", 0, Undefined, acc.token, NoSel)

\* the polling effect of a render that committed account acc (non-null):
\* the previous effect's cleanup, then fetchMessages() and setInterval
\* a faulty variant: the effect returns no cleanup, the old timer lives on
EffectCleanup_Leak == intervals

\* the cleanup the polling effect returned for the account now rendered
EffectCleanup == intervals \ {account}

PollingEffect(acc, pending) ==
    /\ intervals' = EffectCleanup \cup {acc}
    /\ fetchingMessages' = TRUE
    /\ inflight' = pending (+) SetToBag({fetchMessagesCall(acc)})

\* createAccount up to its first await
createAccount(op) ==
    LET f == Fetch("domains", attempts + 1, Undefined, Undefined, NoSel) IN
    /\ attempts' = attempts + 1
    /\ loading' = TRUE
    /\ error' = NoError
    /\ inflight' = Await(f)
    /\ last' = Step(op, f.n, Undefined)
    /\ UNCHANGED <<account, storage, messages, selectedMessage, fetchingMessages, intervals>>

\* a faulty variant: the startup effect ignores the persisted record
Mount_AlwaysCreates ==
    /\ phase = "boot"
    /\ phase' = "mounted"
    /\ createAccount("startup")
    /\ UNCHANGED <<calls, pvars>>

\* the startup effect
Mount ==
    /\ phase = "boot"
    /\ phase' = "mounted"
    /\ IF storage # Null
       THEN LET saved == JSONparseAccount(storage) IN
            /\ account' = saved
            /\ PollingEffect(saved, inflight)
            /\ last' = Step("restore", Undefined, saved.token)
            /\ UNCHANGED <<storage, messages, selectedMessage, loading, error, attempts>>
       ELSE createAccount("startup")
    /\ UNCHANGED <<calls, pvars>>

\* the New Address button (disabled={loading})
ClickNewAddress ==
    /\ phase = "mounted"
    /\ ~loading
    /\ Call
    /\ createAccount("newAddress")
    /\ UNCHANGED <<phase, pvars>>

\* a faulty variant: a failed sequence also drops the credential it was to replace
createAccountThrow_DropsCredential(f, msg) ==
    /\ error' = msg
    /\ loading' = FALSE
    /\ account' = Null
    /\ storage' = Null
    /\ inflight' = Settle(f)
    /\ last' = Step("createAccount.failed", f.n, Undefined)
    /\ UNCHANGED <<messages, selectedMessage, fetchingMessages, intervals, attempts>>

\* catch + finally of createAccount
createAccountThrow(f, msg) ==
    /\ error' = msg
    /\ loading' = FALSE
    /\ inflight' = Settle(f)
    /\ last' = Step("createAccount.failed", f.n, Undefined)
    /\ UNCHANGED <<account, storage, messages, selectedMessage, fetchingMessages,
                   intervals, attempts>>

\* the next request of the sequence, replacing the settled one
createAccountNext(f, g) ==
    /\ inflight' = Settle(f) (+) SetToBag({g})
    /\ last' = Step("createAccount." \o g.kind, f.n, Undefined)
    /\ UNCHANGED <<account, storage, messages, selectedMessage, loading,
                   fetchingMessages, error, intervals, attempts>>

DomainsOutcomes == {"reject", "notOk", "errorField", "noMembers", "ok"}

DomainsError(out) ==
    CASE out = "reject" -> "Failed to fetch"
      [] out = "notOk" -> "Domain fetch failed"
      [] out = "errorField" -> "upstream error"
      [] out = "noMembers" -> "No email domains available"

\* step 1 settles: domain list
DomainsSettled(f, out) ==
    /\ phase = "mounted"
    /\ BagIn(f, inflight) /\ f.kind = "domains"
    /\ IF out = "ok"
       THEN createAccountNext(f, Fetch("accounts", f.n, Undefined, Undefined, NoSel))
       ELSE createAccountThrow(f, DomainsError(out))
    /\ UNCHANGED <<calls, phase, pvars>>

AccountsOutcomes == {"reject", "notOk", "ok"}

AccountsError(out) ==
    CASE out = "reject" -> "Failed to fetch"
      [] out = "notOk" -> "Failed to create account"

\* step 2 settles: account creation
AccountsSettled(f, out) ==
    /\ phase = "mounted"
    /\ BagIn(f, inflight) /\ f.kind = "accounts"
    /\ IF out = "ok"
       THEN createAccountNext(f, Fetch("token", f.n, f.n, Undefined, NoSel))
       ELSE createAccountThrow(f, AccountsError(out))
    /\ UNCHANGED <<calls, phase, pvars>>

TokenOutcomes == {"reject", "notOk", "noToken", "ok"}

TokenError(out) ==
    CASE out = "reject" -> "Failed to fetch"
      [] out = "notOk" -> "Failed to get token"
      [] out = "noToken" -> "Token not received from server"

\* the success tail of createAccount, its finally, and the render it causes
createAccountStore(f) ==
    LET newAccount == [id |-> f.id, address |-> f.n, token |-> f.n] IN
    /\ account' = newAccount
    /\ storage' = JSONstringifyAccount(newAccount)
    /\ messages' = <<>>
    /\ loading' = FALSE
    /\ PollingEffect(newAccount, Settle(f))
    /\ last' = Step("createAccount.done", f.n, newAccount.token)
    /\ UNCHANGED <<selectedMessage, error, attempts>>

\* step 3 settles: token
TokenSettled(f, out) ==
    /\ phase = "mounted"
    /\ BagIn(f, inflight) /\ f.kind = "token"
    /\ IF out = "ok"
       THEN createAccountStore(f)
       ELSE createAccountThrow(f, TokenError(out))
    /\ UNCHANGED <<calls, phase, pvars>>

\* the interval timer fires: fetchMessages of the closure the timer holds
Tick(acc) ==
    /\ acc \in intervals
    /\ Call
    /\ fetchingMessages' = TRUE
    /\ inflight' = Await(fetchMessagesCall(acc))
    /\ last' = Step("tick", Undefined, acc.token)
    /\ UNCHANGED <<phase, account, storage, messages, selectedMessage, loading, error,
                   intervals, attempts, pvars>>

\* the refresh button (disabled={fetchingMessages}): fetchMessages of the current render
ClickRefresh ==
    /\ phase = "mounted"
    /\ ~fetchingMessages
    /\ Call
    /\ IF account = Null
       THEN /\ last' = Step("refresh.noAccount", Undefined, Undefined)
            /\ UNCHANGED <<fetchingMessages, inflight>>
       ELSE /\ fetchingMessages' = TRUE
            /\ inflight' = Await(fetchMessagesCall(account))
            /\ last' = Step("refresh", Undefined, account.token)
    /\ UNCHANGED <<phase, account, storage, messages, selectedMessage, loading, error,
                   intervals, attempts, pvars>>

\* a faulty variant: the poll's catch block reports to the user
fetchMessagesCatch_SetsError(msg) == msg

\* catch of fetchMessages: console.error only
fetchMessagesCatch(msg) == error

\* a message-list request fails (fetch rejects, or the response is not ok)
MessagesFailed(f, out) ==
    /\ phase = "mounted"
    /\ BagIn(f, inflight) /\ f.kind = "messages"
    /\ error' = fetchMessagesCatch(IF out = "reject" THEN "Failed to fetch"
                                   ELSE "Failed to fetch messages")
    /\ fetchingMessages' = FALSE
    /\ inflight' = Settle(f)
    /\ last' = Step("fetchMessages.failed", Undefined, f.token)
    /\ UNCHANGED <<calls, phase, account, storage, messages, selectedMessage, loading,
                   intervals, attempts, pvars>>

\* setMessages(data['hydra:member'] || [])
fetchMessagesStore(members) == members

\* a faulty variant: the answer to a request of a replaced credential is dropped
MessagesLoaded_DropsStale(f, members) ==
    /\ phase = "mounted"
    /\ BagIn(f, inflight) /\ f.kind = "messages"
    /\ messages' = IF account # Null /\ f.token = account.token THEN members ELSE messages
    /\ fetchingMessages' = FALSE
    /\ inflight' = Settle(f)
    /\ last' = Step("fetchMessages.done", Undefined, f.token)
    /\ UNCHANGED <<calls, phase, account, storage, selectedMessage, loading, error,
                   intervals, attempts, pvars>>

\* a message-list request succeeds
MessagesLoaded(f, members) ==
    /\ phase = "mounted"
    /\ BagIn(f, inflight) /\ f.kind = "messages"
    /\ messages' = fetchMessagesStore(members)
    /\ fetchingMessages' = FALSE
    /\ inflight' = Settle(f)
    /\ last' = Step("fetchMessages.done", Undefined, f.token)
    /\ UNCHANGED <<calls, phase, account, storage, selectedMessage, loading, error,
                   intervals, attempts, pvars>>

\* a row of the message list is clicked: fetchMessageDetail up to its await
ClickMessage(id) ==
    /\ phase = "mounted"
    /\ id \in Ids(messages)
    /\ Call
    /\ IF account = Null
       THEN /\ last' = Step("select.noAccount", id, Undefined)
            /\ UNCHANGED <<loading, inflight>>
       ELSE LET f == Fetch("detail", 0, id, account.token, NoSel) IN
            /\ loading' = TRUE
            /\ inflight' = Await(f)
            /\ last' = Step("select", id, f.token)
    /\ UNCHANGED <<phase, account, storage, messages, selectedMessage, fetchingMessages,
                   error, intervals, attempts, pvars>>

\* catch of fetchMessageDetail: setError(err.message)
fetchMessageDetailCatch(msg) == msg

\* a detail request fails
DetailFailed(f, out) ==
    /\ phase = "mounted"
    /\ BagIn(f, inflight) /\ f.kind = "detail"
    /\ error' = fetchMessageDetailCatch(IF out = "reject" THEN "Failed to fetch"
                                        ELSE "Failed to fetch message detail")
    /\ loading' = FALSE
    /\ inflight' = Settle(f)
    /\ last' = Step("fetchMessageDetail.failed", f.id, f.token)
    /\ UNCHANGED <<calls, phase, account, storage, messages, selectedMessage, fetchingMessages,
                   intervals, attempts, pvars>>

\* a faulty variant: the opened message is put back when the list no longer has it
MarkSeen_Upserts(prev, id) ==
    IF id \in Ids(prev)
    THEN [i \in 1..Len(prev) |-> IF prev[i].id = id THEN [prev[i] EXCEPT !.seen = TRUE]
                                 ELSE prev[i]]
    ELSE Append(prev, [id |-> id, seen |-> TRUE])

\* prev.map(m => m.id === id ? { ...m, seen: true } : m)
MarkSeen(prev, id) ==
    [i \in 1..Len(prev) |-> IF prev[i].id = id THEN [prev[i] EXCEPT !.seen = TRUE]
                            ELSE prev[i]]

\* a detail request succeeds
DetailLoaded(f) ==
    /\ phase = "mounted"
    /\ BagIn(f, inflight) /\ f.kind = "detail"
    /\ selectedMessage' = [id |-> f.id]
    /\ messages' = MarkSeen(messages, f.id)
    /\ loading' = FALSE
    /\ inflight' = Settle(f)
    /\ last' = Step("fetchMessageDetail.done", f.id, f.token)
    /\ UNCHANGED <<calls, phase, account, storage, fetchingMessages, error, intervals,
                   attempts, pvars>>

\* a trash button is clicked (list row, or the viewer): deleteMessage up to its await;
\* the closure keeps the selectedMessage of the render the button belongs to
ClickDelete(id) ==
    /\ phase = "mounted"
    /\ id \in Ids(messages) \cup (IF selectedMessage = Null THEN {} ELSE {selectedMessage.id})
    /\ Call
    /\ IF account = Null
       THEN /\ last' = Step("delete.noAccount", id, Undefined)
            /\ UNCHANGED inflight
       ELSE LET f == Fetch("delete", 0, id, account.token, SelId) IN
            /\ inflight' = Await(f)
            /\ last' = Step("delete", id, f.token)
    /\ UNCHANGED <<phase, account, storage, messages, selectedMessage, loading,
                   fetchingMessages, error, intervals, attempts, pvars>>

\* catch of deleteMessage: console.error only
deleteMessageCatch(msg) == error

\* the DELETE request rejects
DeleteFailed(f) ==
    /\ phase = "mounted"
    /\ BagIn(f, inflight) /\ f.kind = "delete"
    /\ error' = deleteMessageCatch("Failed to fetch")
    /\ inflight' = Settle(f)
    /\ last' = Step("deleteMessage.failed", f.id, f.token)
    /\ UNCHANGED <<calls, phase, account, storage, messages, selectedMessage, loading,
                   fetchingMessages, intervals, attempts, pvars>>

\* prev.filter(m => m.id !== id)
RemoveMessage(prev, id) == SelectSeq(prev, LAMBDA m : m.id # id)

\* if (selectedMessage?.id === id) setSelectedMessage(null), on the closure's selectedMessage
deleteMessageClear(f) == IF f.sel = f.id THEN Null ELSE selectedMessage

\* the statuses a DELETE response can carry: 204, and 404 / 500 as the not-ok ones
DeleteStatuses == {204, 404, 500}

\* does the continuation of deleteMessage run its success tail on this response
deleteMessageProceeds(status) == TRUE

\* the DELETE request resolves with a response (fetch resolves whatever the status)
DeleteResolved(f, status) ==
    /\ phase = "mounted"
    /\ BagIn(f, inflight) /\ f.kind = "delete"
    /\ IF deleteMessageProceeds(status)
       THEN /\ messages' = RemoveMessage(messages, f.id)
            /\ selectedMessage' = deleteMessageClear(f)
       ELSE UNCHANGED <<messages, selectedMessage>>
    /\ inflight' = Settle(f)
    /\ last' = Step(IF ResponseOk(status) THEN "deleteMessage.done" ELSE "deleteMessage.notOk", f.id, f.token)
    /\ UNCHANGED <<calls, phase, account, storage, loading, fetchingMessages, error,
                   intervals, attempts, pvars>>

\* the back button of the viewer
CloseDetail ==
    /\ phase = "mounted"
    /\ selectedMessage # Null
    /\ selectedMessage' = Null
    /\ last' = Step("close", Undefined, Undefined)
    /\ UNCHANGED <<calls, phase, account, storage, messages, loading, fetchingMessages, error,
                   intervals, inflight, attempts, pvars>>

\* the dismiss button of the error toast
DismissError ==
    /\ phase = "mounted"
    /\ error # NoError
    /\ error' = NoError
    /\ last' = Step("dismiss", Undefined, Undefined)
    /\ UNCHANGED <<calls, phase, account, storage, messages, selectedMessage, loading,
                   fetchingMessages, intervals, inflight, attempts, pvars>>

\* the component is torn down: the polling effect's cleanup runs, nothing renders again
Unmount ==
    /\ phase = "mounted"
    /\ phase' = "unmounted"
    /\ intervals' = EffectCleanup
    /\ last' = Step("unmount", Undefined, Undefined)
    /\ UNCHANGED <<calls, account, storage, messages, selectedMessage, loading, fetchingMessages,
                   error, inflight, attempts, pvars>>

Next ==
    \/ Mount
    \/ ClickNewAddress
    \/ \E f \in BagToSet(inflight), out \in DomainsOutcomes : DomainsSettled(f, out)
    \/ \E f \in BagToSet(inflight), out \in AccountsOutcomes : AccountsSettled(f, out)
    \/ \E f \in BagToSet(inflight), out \in TokenOutcomes : TokenSettled(f, out)
    \/ \E acc \in intervals : Tick(acc)
    \/ ClickRefresh
    \/ \E f \in BagToSet(inflight), out \in {"reject", "notOk"} : MessagesFailed(f, out)
    \/ \E f \in BagToSet(inflight), members \in HydraMembers : MessagesLoaded(f, members)
    \/ \E id \in MsgIds : ClickMessage(id)
    \/ \E f \in BagToSet(inflight), out \in {"reject", "notOk"} : DetailFailed(f, out)
    \/ \E f \in BagToSet(inflight) : DetailLoaded(f)
    \/ \E id \in MsgIds : ClickDelete(id)
    \/ \E f \in BagToSet(inflight) : DeleteFailed(f)
    \/ \E f \in BagToSet(inflight), status \in DeleteStatuses : DeleteResolved(f, status)
    \/ CloseDetail
    \/ DismissError
    \/ Unmount

Spec == Init /\ [][Next]_vars

\* ------------------------------------------------------------ relay proxy
\* An optional value (a header, a body) is the empty set or a singleton.
\* The three proxy modules: "json" (part_000, first module: response.json()),
\* "ctype" (part_000, second module: branches on content-type),
\* "text" (part_001: response.text() then JSON.parse).
Variants == {"json", "ctype", "text"}

\* proxyRequest takes the method as a parameter; the registered routes pass GET, POST
\* and DELETE, the helper itself also provides for PUT and PATCH
Methods == {"GET", "POST", "PUT", "PATCH", "DELETE"}

Paths == {"/domains", "/accounts", "/token", "/messages", "/messages/x"}

\* req.headers.authorization: absent, present and empty, present with a bearer token
AuthorizationValues == {{}, {""}, {"Bearer tok"}}

Credentials == [type |-> "object", text |-> "{\"address\":\"a@test.dev\",\"password\":\"pw\"}"]
EmptyObject == [type |-> "object", text |-> "{}"]
EmptyArray == [type |-> "array", text |-> "[]"]
NotFound == [type |-> "object", text |-> "{\"message\":\"not found\"}"]

\* req.body after express.json(): absent, or a parsed object
BodyValues == {{}, {EmptyObject}, {Credentials}}

\* JavaScript truthiness of an optional string / an optional object
TruthyString(o) == o # {} /\ o # {""}
TruthyObject(o) == o # {}

\* JSON.stringify of a parsed value: its canonical text
JSONstringify(v) == v.text

\* JSON.parse: the value, or a SyntaxError
JSONparse(text) ==
    CASE text = "{\"message\":\"not found\"}" -> [ok |-> TRUE, value |-> NotFound]
      [] text = "{ \"message\" : \"not found\" }" -> [ok |-> TRUE, value |-> NotFound]
      [] text = "[]" -> [ok |-> TRUE, value |-> EmptyArray]
      [] text = "{}" -> [ok |-> TRUE, value |-> EmptyObject]
      [] OTHER -> [ok |-> FALSE, message |-> "Unexpected token"]

\* the bodies the upstream can send
UpstreamTexts ==
    {"", "{\"message\":\"not found\"}", "{ \"message\" : \"not found\" }", "[]",
     "Not Found", "<html>Bad Gateway</html>"}

UpstreamStatuses == {200, 201, 204, 401, 404, 502}

\* response.headers.get("content-type"): absent, or a media type
ContentTypes == {{}, {"application/json"}, {"application/json; charset=utf-8"},
                 {"application/ld+json; charset=utf-8"}, {"text/html"}}

\* contentType && contentType.includes("application/json")
IsJsonContentType(ct) == ct \in {{"application/json"}, {"application/json; charset=utf-8"}}

Reply(status, kind, body) == [status |-> status, kind |-> kind, body |-> body]

\* res.status(500).json({ error: ..., details: error.message })
ErrorReply(detail) ==
    Reply(500, "json",
          "{\"error\":\"Failed to fetch from mail service\",\"details\":\"" \o detail \o "\"}")

\* the upstream request proxyRequest builds: headers, and options.body
UpstreamHeaders(req) ==
    [contentType |-> {"application/json"},
     authorization |-> IF TruthyString(req.authorization) THEN req.authorization ELSE {}]

\* a faulty variant: the body is attached whatever the method
UpstreamBody_AnyMethod(req) ==
    IF TruthyObject(req.body) THEN {JSONstringify(CHOOSE v \in req.body : TRUE)} ELSE {}

UpstreamBody(req) ==
    IF req.method \in {"POST", "PUT", "PATCH"} /\ TruthyObject(req.body)
    THEN {JSONstringify(CHOOSE v \in req.body : TRUE)}
    ELSE {}

UpstreamRequest(req) ==
    [method |-> req.method, path |-> req.path, headers |-> UpstreamHeaders(req),
     body |-> UpstreamBody(req)]

\* a faulty variant: the 204 guard is missing
IsNoContent_Never(status) == FALSE

\* if (response.status === 204)
IsNoContent(status) == status = 204

\* what the try block does with a non-204 upstream response: the reply, or a throw
\* that the catch block turns into the 500 reply; read tells whether the body was read
AdaptJson(up) ==
    LET p == JSONparse(up.text) IN
    IF p.ok THEN Reply(up.status, "json", JSONstringify(p.value))
    ELSE ErrorReply(p.message)

AdaptText(up) ==
    IF up.text = "" THEN Reply(up.status, "empty", "")
    ELSE LET p == JSONparse(up.text) IN
         IF p.ok THEN Reply(up.status, "json", JSONstringify(p.value))
         ELSE Reply(up.status, "text", up.text)

Adapt(variant, up) ==
    CASE variant = "json" -> AdaptJson(up)
      [] variant = "ctype" -> IF IsJsonContentType(up.contentType) THEN AdaptJson(up)
                              ELSE Reply(up.status, "text", up.text)
      [] variant = "text" -> AdaptText(up)

\* a faulty variant: the catch block calls the upstream once more
proxyCatch_Retry(detail) == [reply |-> ErrorReply(detail), calls |-> 1]

\* the catch block for a failed fetch: one 500 reply, no second upstream call
proxyCatch(detail) == [reply |-> ErrorReply(detail), calls |-> 0]

ProxyInit ==
    /\ phase = "boot" /\ account = Null /\ storage = Null /\ messages = <<>>
    /\ selectedMessage = Null /\ loading = FALSE /\ fetchingMessages = FALSE
    /\ error = NoError /\ intervals = {} /\ inflight = EmptyBag /\ attempts = 0
    /\ calls = 0 /\ last = Step("init", Undefined, Undefined)
    /\ ProxyIdle

\* proxyRequest up to its await fetch(...)
ProxyRequest(variant, method, path, authorization, body) ==
    LET req == [variant |-> variant, method |-> method, path |-> path,
                authorization |-> authorization, body |-> body] IN
    /\ preq = Null
    /\ preq' = req
    /\ pup' = UpstreamRequest(req)
    /\ pstat' = [pstat EXCEPT !.calls = @ + 1]
    /\ UNCHANGED <<pupres, pres, cvars>>

\* the upstream answers: the rest of the try block
UpstreamResponds(status, contentType, text) ==
    LET up == [status |-> status, contentType |-> contentType, text |-> text] IN
    /\ preq # Null /\ preq.method # "HEALTH" /\ pupres = Null
    /\ pupres' = up
    /\ IF IsNoContent(status)
       THEN /\ pres' = Reply(204, "empty", "")
            /\ pstat' = [pstat EXCEPT !.responses = @ + 1]
       ELSE /\ pres' = Adapt(preq.variant, up)
            /\ pstat' = [pstat EXCEPT !.responses = @ + 1, !.bodyRead = TRUE]
    /\ UNCHANGED <<preq, pup, cvars>>

TransportErrors == {"fetch failed", "getaddrinfo ENOTFOUND api.mail.tm"}

\* the upstream fetch rejects: the catch block
UpstreamFails(detail) ==
    /\ preq # Null /\ preq.method # "HEALTH" /\ pupres = Null
    /\ pupres' = [failed |-> detail]
    /\ pres' = proxyCatch(detail).reply
    /\ pstat' = [pstat EXCEPT !.responses = @ + 1, !.calls = @ + proxyCatch(detail).calls]
    /\ UNCHANGED <<preq, pup, cvars>>

\* the health route answers without an upstream call
Health(variant) ==
    /\ preq = Null
    /\ preq' = [variant |-> variant, method |-> "HEALTH", path |-> "/health",
                authorization |-> {}, body |-> {}]
    /\ pres' = Reply(200, "json", "{\"status\":\"ok\",\"service\":\"KAS Temp Mail Proxy\"}")
    /\ pstat' = [pstat EXCEPT !.responses = @ + 1]
    /\ UNCHANGED <<pup, pupres, cvars>>

\* the request is over; the proxy keeps nothing of it
ProxyDone ==
    /\ pres # Null
    /\ preq' = Null /\ pup' = Null /\ pupres' = Null /\ pres' = Null
    /\ pstat' = [calls |-> 0, responses |-> 0, bodyRead |-> FALSE]
    /\ UNCHANGED cvars

ProxyNext ==
    \/ \E variant \in Variants, method \in Methods, path \in Paths,
          authorization \in AuthorizationValues, body \in BodyValues :
          ProxyRequest(variant, method, path, authorization, body)
    \/ \E status \in UpstreamStatuses, contentType \in ContentTypes, text \in UpstreamTexts :
          UpstreamResponds(status, contentType, text)
    \/ \E detail \in TransportErrors : UpstreamFails(detail)
    \/ \E variant \in Variants : Health(variant)
    \/ ProxyDone

ProxySpec == ProxyInit /\ [][ProxyNext]_vars

\* ---------------------------------------------------- relay proxy: claims
Answered == pres # Null /\ pupres # Null /\ "status" \in DOMAIN pupres

TransportFailed == pres # Null /\ pupres # Null /\ "failed" \in DOMAIN pupres

\* C4: for every non-204 upstream response every proxy module answers with the upstream
\* status; the body is the parsed JSON value when the upstream text parses, the raw text
\* when it does not, and an unparsable body never turns the answer into an error.
C4_StatusAndBodyPreserved ==
    (Answered /\ pupres.status # 204) =>
        /\ pres.status = pupres.status
        /\ IF JSONparse(pupres.text).ok
           THEN pres.kind = "json"
                /\ pres.body = JSONstringify(JSONparse(pupres.text).value)
           ELSE pres.kind \in {"text", "empty"} /\ pres.body = pupres.text

\* C5: for every upstream response with status 204, whatever its content type or body,
\* the proxy answers 204 with an empty body and never reads the upstream body.
C5_NoContentIsEmpty ==
    (Answered /\ pupres.status = 204) =>
        /\ pres = Reply(204, "empty", "")
        /\ ~pstat.bodyRead

C5_Witness ==
    /\ Answered /\ pupres.status = 204
    /\ pupres.contentType = {"application/json"} /\ pupres.text = "Not Found"
    /\ preq.variant = "json"

\* the incoming request carries a (non-empty) Authorization header
HasAuthorization == preq.authorization # {} /\ preq.authorization # {""}

C7_TransportFailureIsTerminal ==
    /\ pstat.calls <= 1
    /\ pstat.responses <= 1
    /\ (pres # Null) => pstat.responses = 1
    /\ TransportFailed =>
           /\ pres.status = 500 /\ pres.kind = "json"
           /\ pres.body = "{\"error\":\"Failed to fetch from mail service\",\"details\":\""
                          \o pupres.failed \o "\"}"

C7_Witness == TransportFailed /\ pupres.failed = "fetch failed" /\ pstat.calls = 1

\* --------------------------------------------- session controller: claims
AcquisitionKinds == {"domains", "accounts", "token"}

\* C1: a failed credential acquisition issues no later step, sets one user-visible
\* error, and leaves the in-memory credential and the persisted record as they were.
C1_AcquisitionAtomic ==
    [][(last'.op = "createAccount.failed") =>
          /\ account' = account
          /\ storage' = storage
          /\ error' # NoError
          /\ BagCardinality(inflight') = BagCardinality(inflight) - 1
          /\ \A g \in BagToSet(inflight') :
                 ~(g.kind \in AcquisitionKinds /\ g.n = last'.arg)]_vars

C1_Witness ==
    /\ last.op = "createAccount.failed"
    /\ error = "Failed to get token"
    /\ account = SavedAccount
    /\ storage = JSONstringifyAccount(SavedAccount)

\* C2: the seen flag of a listed message never goes from true to false while the
\* message stays in the list, and goes from false to true only through a successful
\* detail fetch of that message.
C2_SeenMonotonic ==
    [][\A id \in MsgIds :
          /\ (SeenIn(messages, id) /\ id \in Ids(messages')) => SeenIn(messages', id)
          /\ (id \in Ids(messages) /\ ~SeenIn(messages, id) /\ SeenIn(messages', id)) =>
                 (last'.op = "fetchMessageDetail.done" /\ last'.arg = id)]_vars

\* C3: when a delete of message X completes, X is gone from the list, and the detail
\* pane is cleared exactly when it shows X at that moment, otherwise left as it is.
C3_DeleteClearsShownMessage ==
    [][(last'.op = "deleteMessage.done") =>
          /\ last'.arg \notin Ids(messages')
          /\ IF selectedMessage # Null /\ selectedMessage.id = last'.arg
             THEN selectedMessage' = Null
             ELSE selectedMessage' = selectedMessage]_vars

PollIssuingOps == {"restore", "createAccount.done", "tick", "refresh"}

\* C8: a credential that becomes active is polled at once and again at every tick of
\* its timer for as long as it stays active, failed polls included; once it is replaced
\* or the component is torn down its timer is gone and no poll carries its token.
C8_PollingLifecycle ==
    /\ [](intervals = IF phase = "mounted" /\ account # Null THEN {account} ELSE {})
    /\ []((last.op \in PollIssuingOps) => (account # Null /\ last.token = account.token))
    /\ [][/\ (account' # account) =>
                 (/\ last'.op \in {"restore", "createAccount.done"}
                  /\ BagIn(fetchMessagesCall(account'), inflight'))
          /\ (last'.op = "tick") =>
                 inflight' = inflight (+) SetToBag({fetchMessagesCall(account)})]_vars

C8_Witness ==
    /\ last.op = "tick" /\ last.token = 2
    /\ account # Null /\ account.token = 2
    /\ intervals = {account}

BackgroundFailures ==
    {"fetchMessages.failed", "fetchMessageDetail.failed", "deleteMessage.failed",
     "deleteMessage.notOk"}

\* C9: failed polls, detail fetches and deletes are only logged: none sets the
\* user-visible error, which only a failed credential acquisition sets.
C9_BackgroundFailuresOnlyLogged ==
    [][/\ (last'.op \in BackgroundFailures) => error' = error
       /\ (error' # error /\ error' # NoError) => last'.op = "createAccount.failed"]_vars

\* C9, amended: failed polls and deletes are only logged; a failed detail fetch sets the
\* user-visible error, which only it and a failed credential acquisition set.
C9_PollAndDeleteFailuresOnlyLogged ==
    [][/\ (last'.op \in BackgroundFailures \ {"fetchMessageDetail.failed"}) => error' = error
       /\ (last'.op = "fetchMessageDetail.failed") => error' # NoError
       /\ (error' # error /\ error' # NoError) =>
              last'.op \in {"createAccount.failed", "fetchMessageDetail.failed"}]_vars

C9_Witness ==
    /\ last.op = "fetchMessages.failed"
    /\ error = "Failed to fetch message detail"

\* C10: a failed delete, by a not-ok response or by a transport error, leaves the
\* in-memory list and the detail pane unchanged.
C10_FailedDeleteChangesNothing ==
    [][(last'.op \in {"deleteMessage.notOk", "deleteMessage.failed"}) =>
          (messages' = messages /\ selectedMessage' = selectedMessage)]_vars

\* C11: on startup exactly one of two things happens: a persisted credential record
\* becomes the active credential, with no domain, account or token call; or, when there
\* is none, one credential acquisition is started.
C11_RestoreOrAcquire ==
    [][(phase = "boot" /\ phase' # "boot") =>
          IF storage # Null
          THEN /\ account' = JSONparseAccount(storage)
               /\ storage' = storage
               /\ attempts' = attempts
               /\ \A g \in BagToSet(inflight') : g.kind \notin AcquisitionKinds
          ELSE /\ account' = Null
               /\ attempts' = attempts + 1
               /\ inflight' = SetToBag({Fetch("domains", attempts', Undefined, Undefined, NoSel)})]_vars

C11_Witness ==
    /\ last.op = "restore"
    /\ account = SavedAccount
    /\ attempts = 0
    /\ inflight = SetToBag({fetchMessagesCall(SavedAccount)})

\* C12: the answer to a message-list request issued with a replaced credential's token
\* is not discarded: whenever such a request is in flight it can resolve, and its result
\* is then written into the list while the new credential is active.
C12_StalePollIsWritten ==
    \A f \in BagToSet(inflight) :
        (phase = "mounted" /\ f.kind = "messages" /\ account # Null
         /\ f.token # account.token) =>
            \A members \in HydraMembers :
                ENABLED (MessagesLoaded(f, members) /\ messages' = members)

C12_Witness ==
    /\ last.op = "fetchMessages.done"
    /\ account # Null /\ account.token = 1 /\ last.token = 0
    /\ storage = JSONstringifyAccount(account)
    /\ messages # <<>>

\* the credential acquisitions that have a request in flight
AcquisitionsInFlight == {f.n : f \in {g \in BagToSet(inflight) : g.kind \in AcquisitionKinds}}

\* C13: at most one credential acquisition is in flight at any time, whatever
\* message-detail fetches (which share the loading flag) run meanwhile.
C13_OneAcquisitionAtATime == Cardinality(AcquisitionsInFlight) <= 1

\* C14: once a successful delete has removed message X from the in-memory list, X does
\* not come back under the same credential; stated for the step that follows the delete,
\* where the only message-list responses that can arrive are those of requests that
\* were already in flight.
C14_DeletedStaysDeleted ==
    [][(/\ last.op = "deleteMessage.done"
        /\ last.arg \notin Ids(messages)
        /\ account # Null /\ last.token = account.token
        /\ account' = account) =>
            last.arg \notin Ids(messages')]_vars

\* C14, amended: a message id that is not in the in-memory list enters it only when a
\* message-list response is written; no other operation puts a deleted message back.
C14_OnlyListResponseBringsBack ==
    [][\A x \in MsgIds :
          (x \notin Ids(messages) /\ x \in Ids(messages')) =>
              last'.op = "fetchMessages.done"]_vars

C14_Witness ==
    /\ last.op = "deleteMessage.done"
    /\ last.arg \notin Ids(messages)
    /\ account # Null /\ last.token = account.token
    /\ BagIn(fetchMessagesCall(account), inflight)

\* C15: whenever the detail pane shows a message, that message's id is in the in-memory
\* message list.
C15_ShownMessageIsListed ==
    selectedMessage # Null => selectedMessage.id \in Ids(messages)

====
